---- MODULE Spec2Model ----
(***************************************************************************)
(* The hand engine of backend/app/models/poker.py (class PokerGame) as a   *)
(* state machine.  PokerGame keeps three pieces of state: the PokerKit     *)
(* state object it drives (self.pokerkit_state), the API projection        *)
(* self.state (a GameState that is rebuilt by _create_api_state), and its  *)
(* own bookkeeping (player_stacks, unique_hole_cards, player_positions,    *)
(* detailed_log).  The PokerKit operations the engine calls are written    *)
(* out as operators named Pk...; each engine method is an operator over a  *)
(* record `self` holding the object's fields, and the two public calls     *)
(* execute_action and get_game_state are the actions.  The request layer   *)
(* of backend/app/api/poker.py keeps the live games in the dictionary       *)
(* active_games; its start and reset handlers are the actions of SpecApi.   *)
(***************************************************************************)
EXTENDS Integers, Sequences, FiniteSets, TLC

VARIABLES
    pokerkit_state,     \* self.pokerkit_state
    state,              \* self.state (GameState)
    player_stacks,      \* self.player_stacks (the mapping passed to __init__)
    unique_hole_cards,  \* self.unique_hole_cards
    player_positions,   \* self.player_positions
    detailed_log,       \* self.detailed_log
    raises_left,        \* bets, raises and all-ins the callers still submit
    irregular_left,     \* submissions outside get_valid_actions still made
    active_games,       \* api.poker.active_games: game id -> PokerGame
    last_call,          \* the last request the API handled and its answer
    acted_in_round,     \* the ids whose action was accepted since the board last grew
    database            \* what get_connection() reaches: up or not, the hand_history rows

vars == <<pokerkit_state, state, player_stacks, unique_hole_cards,
          player_positions, detailed_log, raises_left, irregular_left,
          active_games, last_call, acted_in_round, database>>

---------------------------------------------------------------------------
(* Program constants *)

NumPlayers == 6
SmallBlind == 20
BigBlind == 40
MinBet == 40
DeckSize == 52
BoardSize == 5

(* None for an Optional[int] player id / actor index *)
NoneId == 0
NoActor == -1

PlayerIndices == 0..(NumPlayers - 1)
PlayerIds == 1..NumPlayers

---------------------------------------------------------------------------
(* Bounds of the model *)

\* accepted actions a hand is followed for
MaxActions == 30

\* the hands that are played: the stack mapping passed to PokerGame (player
\* ids 1..6), how many bets, raises and all-ins the callers submit, and how
\* many accepted submissions are outside get_valid_actions
Scenarios ==
    { [stacks |-> <<1000, 1000, 1000, 1000, 1000, 1000>>, raises |-> 0, irregular |-> 1],
      [stacks |-> <<100, 100, 1000, 1000, 1000, 1000>>, raises |-> 1, irregular |-> 0] }

\* outcomes of random.shuffle that are explored, as rotations of the ordered
\* deck: the engine's dealing deck, its fallback deck, PokerKit's own deck
DealShuffles == {0}
FallbackShuffles == {2}
BoardShuffles == {30}

\* the readings of datetime.now() at construction
CreationTimes == {"t0"}

\* the games the session store is followed for
MaxGames == 3

\* the stack mappings sent to the start handler that it must refuse: two
\* players, seven players, a stack of 0, a negative stack
BadStartRequests ==
    { <<1000, 1000>>,
      <<1000, 1000, 1000, 1000, 1000, 1000, 1000>>,
      <<1000, 1000, 1000, 1000, 1000, 0>>,
      <<1000, 1000, 1000, -50, 1000, 1000>> }

---------------------------------------------------------------------------
(* Helpers *)

RECURSIVE SumOver(_, _)
SumOver(f, S) ==
    IF S = {} THEN 0
    ELSE LET x == CHOOSE y \in S : TRUE IN f[x] + SumOver(f, S \ {x})

Sum(f) == SumOver(f, DOMAIN f)

MaxOf(f) == CHOOSE m \in {f[i] : i \in DOMAIN f} : \A i \in DOMAIN f : f[i] <= m

Min2(a, b) == IF a <= b THEN a ELSE b
Max2(a, b) == IF a >= b THEN a ELSE b

---------------------------------------------------------------------------
(* Cards *)

Ranks == <<"2", "3", "4", "5", "6", "7", "8", "9", "T", "J", "Q", "K", "A">>
SuitLetters == <<"h", "d", "c", "s">>

\* deck = [f"{rank}{suit}" for rank in ranks for suit in suits]
OrderedDeck ==
    [k \in 1..DeckSize |->
        <<Ranks[((k - 1) \div 4) + 1], SuitLetters[((k - 1) % 4) + 1]>>]

\* random.shuffle(deck): the outcome numbered `seed`
Shuffle(seed) ==
    [k \in 1..DeckSize |-> OrderedDeck[((k - 1 + seed) % DeckSize) + 1]]

\* str(card) on a PokerKit card is "ACE OF HEARTS (Ah)"; the two characters
\* in the parentheses are what the engine reads.  A PokerKit card is kept as
\* the record of its rank and suit characters.
PkCard(str) == [rank |-> str[1], suit |-> str[2]]
PkCardStr(card) == <<"(", card.rank, card.suit, ")">>

SuitOfLetter(ch) ==
    CASE ch = "s" -> "spades"
      [] ch = "h" -> "hearts"
      [] ch = "d" -> "diamonds"
      [] ch = "c" -> "clubs"

LetterOfSuit(suit) ==
    CASE suit = "hearts" -> "h"
      [] suit = "diamonds" -> "d"
      [] suit = "clubs" -> "c"
      [] suit = "spades" -> "s"

\* _pokerkit_card_to_api_card (the later definition, which is the one bound
\* to the class): takes str(card) of a PokerKit card, "(..)" form, or a
\* "[..]" form, or a two-character string of the fallback deck
ApiCardOfStr(card_str) ==
    IF card_str[1] = "(" \/ card_str[1] = "["
    THEN [rank |-> card_str[2], suit |-> SuitOfLetter(card_str[3])]
    ELSE [rank |-> card_str[1], suit |-> SuitOfLetter(card_str[2])]

\* Card.__str__
CardStr(card) == <<card.rank, LetterOfSuit(card.suit)>>

---------------------------------------------------------------------------
(* PokerKit: the State object of NoLimitTexasHoldem.create_state, with the  *)
(* automations the engine switches on (ante posting, bet collection, blind  *)
(* posting, hand killing, chips pulling).  Card burning, hole and board     *)
(* dealing, showing or mucking and chips pushing are not automated: the     *)
(* state waits until the engine calls them.                                 *)

\* seats in index order starting at `first`, wrapping
SeatsFrom(first) == [k \in 1..NumPlayers |-> (first + k - 1) % NumPlayers]

\* the index holding the largest (bets[i], i)
MaxBetIndex(pk) ==
    CHOOSE i \in PlayerIndices :
        \A j \in PlayerIndices :
            \/ pk.bets[j] < pk.bets[i]
            \/ (pk.bets[j] = pk.bets[i] /\ j <= i)

\* players still in the hand that hold chips, in seat order from `first`
ActorsFrom(pk, first) ==
    SelectSeq(SeatsFrom(first), LAMBDA i : pk.statuses[i] /\ pk.stacks[i] > 0)

ActiveCount(pk) == Cardinality({i \in PlayerIndices : pk.statuses[i]})

\* State.actor_index
PkActorIndex(pk) ==
    IF pk.actor_indices = <<>> THEN NoActor ELSE Head(pk.actor_indices)

\* State.total_pot_amount: the collected pots plus the bets on the table
PkTotalPotAmount(pk) == pk.pot_amount + Sum(pk.bets)

\* the largest bet of anybody but the holder of the largest (bets[i], i)
PkSecondBet(pk) ==
    MaxOf([i \in PlayerIndices \ {MaxBetIndex(pk)} |-> pk.bets[i]])

\* the uncalled part of the largest bet goes back to its owner and the bets
\* are collected (Automation.BET_COLLECTION)
PkCollectBets(pk, top, second) ==
    [pk EXCEPT !.stacks[top] = @ + (pk.bets[top] - second),
               !.bets = [i \in PlayerIndices |-> 0],
               !.pot_amount = @ + Sum(pk.bets) - (pk.bets[top] - second),
               !.actor_indices = <<>>,
               !.completion_betting_or_raising_amount = 0]

\* where the hand goes after a betting round: chips pushing when one player
\* is left, showdown after the last street, otherwise the dealing of the next
\* street (burn, then board)
PkNextPhase(pk) ==
    IF ActiveCount(pk) = 1
    THEN [pk EXCEPT !.phase = "chips_pushing"]
    ELSE IF pk.street_index = 3
    THEN [pk EXCEPT !.phase = "showdown"]
    ELSE [pk EXCEPT !.phase = "dealing",
                    !.street_index = @ + 1,
                    !.card_burning_status = TRUE,
                    !.board_dealing_count =
                        IF pk.street_index = 0 THEN 3 ELSE 1]

\* the end of a betting round
PkEndBetting(pk) ==
    PkNextPhase(PkCollectBets(pk, MaxBetIndex(pk), PkSecondBet(pk)))

\* the start of a betting round with the given queue of actors: betting is
\* skipped when at most one player could act and owes nothing
PkOpenBetting(pk, actors) ==
    IF \/ actors = <<>>
       \/ (Len(actors) = 1 /\ pk.bets[Head(actors)] >= MaxOf(pk.bets))
    THEN PkEndBetting([pk EXCEPT !.phase = "betting",
                                 !.actor_indices = actors,
                                 !.completion_betting_or_raising_amount = 0])
    ELSE [pk EXCEPT !.phase = "betting",
                    !.actor_indices = actors,
                    !.completion_betting_or_raising_amount = 0]

\* the opener is the seat after the largest blind (seat 0 when nothing is bet)
PkBeginBetting(pk) ==
    PkOpenBetting(pk, ActorsFrom(pk, (MaxBetIndex(pk) + 1) % NumPlayers))

\* State.can_deal_hole / deal_hole(card): one card to the next player, seat
\* by seat, two rounds; the card leaves PokerKit's own deck
PkCanDealHole(pk) ==
    /\ pk.phase = "hole_dealing"
    /\ \E i \in PlayerIndices : Len(pk.hole_cards[i]) < 2

PkHoleDealeeIndex(pk) ==
    CHOOSE i \in PlayerIndices :
        /\ Len(pk.hole_cards[i]) < 2
        /\ \A j \in PlayerIndices :
              \/ Len(pk.hole_cards[j]) > Len(pk.hole_cards[i])
              \/ (Len(pk.hole_cards[j]) = Len(pk.hole_cards[i]) /\ j >= i)

PkAfterDealHole(pk) ==
    IF \A j \in PlayerIndices : Len(pk.hole_cards[j]) = 2
    THEN PkBeginBetting(pk)
    ELSE pk

PkDealHole(pk, card_str) ==
    PkAfterDealHole(
        [pk EXCEPT
            !.hole_cards[PkHoleDealeeIndex(pk)] = Append(@, PkCard(card_str)),
            !.deck_cards = SelectSeq(@, LAMBDA c : c # PkCard(card_str))])

\* NoLimitTexasHoldem.create_state(automations, False, {}, (20, 40), 40,
\* starting_stacks, 6): seat 0 posts the small blind and seat 1 the big
\* blind, each at most the stack; then the state waits for the hole cards
PkCreateState(starting_stacks, deck) ==
    LET blind == [i \in PlayerIndices |->
                    IF i = 0 THEN Min2(SmallBlind, starting_stacks[i])
                    ELSE IF i = 1 THEN Min2(BigBlind, starting_stacks[i])
                    ELSE 0]
    IN  [ starting_stacks |-> starting_stacks,
          stacks |-> [i \in PlayerIndices |-> starting_stacks[i] - blind[i]],
          bets |-> blind,
          statuses |-> [i \in PlayerIndices |-> TRUE],
          hole_cards |-> [i \in PlayerIndices |-> <<>>],
          board_cards |-> <<>>,
          deck_cards |-> [k \in 1..DeckSize |-> PkCard(deck[k])],
          actor_indices |-> <<>>,
          phase |-> "hole_dealing",
          street_index |-> 0,
          card_burning_status |-> FALSE,
          board_dealing_count |-> 0,
          pot_amount |-> 0,
          completion_betting_or_raising_amount |-> 0,
          status |-> TRUE ]

\* a round that ends as soon as the bets of those who can act are level
PkUpdateBetting_WhenLevel(pk) ==
    IF \/ pk.actor_indices = <<>>
       \/ ActiveCount(pk) = 1
       \/ \A i \in PlayerIndices :
              (pk.statuses[i] /\ pk.stacks[i] > 0) => pk.bets[i] = MaxOf(pk.bets)
    THEN PkEndBetting(pk)
    ELSE pk

\* after an action: the actor leaves the queue; the round ends when the
\* queue is empty or one player is left in the hand
PkUpdateBetting(pk) ==
    IF pk.actor_indices = <<>> \/ ActiveCount(pk) = 1
    THEN PkEndBetting(pk)
    ELSE pk

\* State.can_fold / fold: only a player who owes chips may fold; the folded
\* hand is mucked (hole_cards[i] is emptied) and statuses[i] becomes False
PkCanFold(pk) ==
    /\ pk.actor_indices # <<>>
    /\ pk.bets[PkActorIndex(pk)] < MaxOf(pk.bets)

PkFold(pk) ==
    PkUpdateBetting([pk EXCEPT !.statuses[PkActorIndex(pk)] = FALSE,
                               !.hole_cards[PkActorIndex(pk)] = <<>>,
                               !.actor_indices = Tail(@)])

\* State.can_check_or_call / checking_or_calling_amount / check_or_call
PkCanCheckOrCall(pk) == pk.actor_indices # <<>>

PkCheckingOrCallingAmount(pk) ==
    Min2(pk.stacks[PkActorIndex(pk)],
         MaxOf(pk.bets) - pk.bets[PkActorIndex(pk)])

PkCheckOrCall(pk) ==
    PkUpdateBetting(
        [pk EXCEPT !.stacks[PkActorIndex(pk)] = @ - PkCheckingOrCallingAmount(pk),
                   !.bets[PkActorIndex(pk)] = @ + PkCheckingOrCallingAmount(pk),
                   !.actor_indices = Tail(@)])

\* State.can_complete_bet_or_raise_to(amount): the actor must hold more than
\* the call, somebody else must be able to respond, and amount is a raise
\* TO between the minimum (largest bet + last raise, at least min_bet, capped
\* by the stack) and everything the player has
PkMinCompletionBettingOrRaisingToAmount(pk) ==
    Min2(MaxOf(pk.bets) + Max2(pk.completion_betting_or_raising_amount, MinBet),
         pk.stacks[PkActorIndex(pk)] + pk.bets[PkActorIndex(pk)])

PkMaxCompletionBettingOrRaisingToAmount(pk) ==
    pk.stacks[PkActorIndex(pk)] + pk.bets[PkActorIndex(pk)]

\* a test that knows the most a player can bet but not the least
PkCanCompleteBetOrRaiseTo_NoMinimum(pk, amount) ==
    /\ pk.actor_indices # <<>>
    /\ amount <= PkMaxCompletionBettingOrRaisingToAmount(pk)

PkCanCompleteBetOrRaiseTo(pk, amount) ==
    /\ pk.actor_indices # <<>>
    /\ pk.stacks[PkActorIndex(pk)] > MaxOf(pk.bets) - pk.bets[PkActorIndex(pk)]
    /\ \E j \in PlayerIndices \ {PkActorIndex(pk)} :
           pk.statuses[j] /\ pk.stacks[j] > 0
    /\ amount >= PkMinCompletionBettingOrRaisingToAmount(pk)
    /\ amount <= PkMaxCompletionBettingOrRaisingToAmount(pk)

\* after a bet or raise by seat i: everybody else who is in the hand with
\* chips acts again, starting after the raiser
PkReopenBetting(pk, i) ==
    PkUpdateBetting(
        [pk EXCEPT !.actor_indices =
            SelectSeq(ActorsFrom(pk, (i + 1) % NumPlayers), LAMBDA j : j # i)])

\* State.complete_bet_or_raise_to(amount)
PkCompleteBetOrRaiseTo(pk, amount) ==
    PkReopenBetting(
        [pk EXCEPT
            !.stacks[PkActorIndex(pk)] = @ - (amount - pk.bets[PkActorIndex(pk)]),
            !.bets[PkActorIndex(pk)] = amount,
            !.completion_betting_or_raising_amount =
                Max2(@, amount - MaxOf(pk.bets))],
        PkActorIndex(pk))

\* State.can_burn_card / burn_card: the top card of PokerKit's deck
PkCanBurnCard(pk) == pk.phase = "dealing" /\ pk.card_burning_status

PkBurnCard(pk) ==
    [pk EXCEPT !.card_burning_status = FALSE, !.deck_cards = Tail(@)]

\* State.can_deal_board / deal_board(): all the board cards of the street
\* (three for the flop, one for the turn, one for the river) from the deck;
\* the next betting round begins
PkCanDealBoard(pk) ==
    /\ pk.phase = "dealing"
    /\ ~pk.card_burning_status
    /\ pk.board_dealing_count > 0

PkDealBoard(pk) ==
    PkBeginBetting(
        [pk EXCEPT
            !.board_cards = @ \o SubSeq(pk.deck_cards, 1, pk.board_dealing_count),
            !.deck_cards = SubSeq(@, pk.board_dealing_count + 1, Len(@)),
            !.board_dealing_count = 0])

---------------------------------------------------------------------------
(* PokerGame: the methods, as operators over `self`, the record of the      *)
(* object's fields                                                          *)

ActionTypes == {"fold", "check", "call", "bet", "raise", "all_in"}

\* _deal_initial_cards: up to 12 cards of the engine's shuffled deck, one
\* deal_hole per card, while can_deal_hole()
RECURSIVE DealInitialCards(_, _, _)
DealInitialCards(pk, deck, card_index) ==
    IF card_index < 2 * NumPlayers /\ PkCanDealHole(pk)
    THEN DealInitialCards(PkDealHole(pk, deck[card_index + 1]), deck,
                          card_index + 1)
    ELSE pk

\* _initialize_unique_cards: two cards per player from a second shuffled deck
InitializeUniqueCards(deck) ==
    [player_idx \in PlayerIndices |->
        <<deck[player_idx * 2 + 1], deck[player_idx * 2 + 2]>>]

\* the last player id whose bet is `amount` (the loop overwrites), or None
LastIdWithBet(pk, amount) ==
    LET hits == {i \in PlayerIndices : pk.bets[i] = amount}
    IN  IF hits = {} THEN NoneId
        ELSE (CHOOSE i \in hits : \A j \in hits : j <= i) + 1

\* _store_initial_positions: blinds recognised by the bet amounts 20 and 40,
\* the dealer one seat before the small blind
StoreInitialPositions(pk) ==
    LET sb == LastIdWithBet(pk, SmallBlind)
        bb == LastIdWithBet(pk, BigBlind)
    IN  [ dealer |-> IF sb # NoneId
                     THEN (((sb - 1) - 1) % NumPlayers) + 1
                     ELSE NoneId,
          small_blind |-> sb,
          big_blind |-> bb ]

\* a stage that counts the flop only once the turn is out
GetCurrentStage_Late(pk) ==
    IF Len(pk.board_cards) <= 3 THEN "preflop"
    ELSE IF Len(pk.board_cards) = 4 THEN "flop"
    ELSE "river"

\* _get_current_stage: the stage read off the number of board cards
GetCurrentStage(pk) ==
    IF pk.board_cards = <<>> THEN "preflop"
    ELSE IF Len(pk.board_cards) = 3 THEN "flop"
    ELSE IF Len(pk.board_cards) = 4 THEN "turn"
    ELSE IF Len(pk.board_cards) = 5 THEN "river"
    ELSE "finished"

\* the hole cards _create_api_state and get_player_hole_cards report for
\* seat i: PokerKit's when it still holds two, else the fallback deck's
ReportedHoleCards(self, i) ==
    IF Len(self.pokerkit_state.hole_cards[i]) = 2
    THEN [k \in 1..2 |->
            ApiCardOfStr(PkCardStr(self.pokerkit_state.hole_cards[i][k]))]
    ELSE [k \in 1..Len(self.unique_hole_cards[i]) |->
            ApiCardOfStr(self.unique_hole_cards[i][k])]

\* get_player_hole_cards(player_id)
GetPlayerHoleCards(self, player_id) == ReportedHoleCards(self, player_id - 1)

\* the position flags of _create_api_state: an if / elif chain, dealer first
IsDealer(self, player_id) == self.player_positions.dealer = player_id

IsSmallBlind(self, player_id) ==
    ~IsDealer(self, player_id) /\ self.player_positions.small_blind = player_id

IsBigBlind(self, player_id) ==
    /\ ~IsDealer(self, player_id)
    /\ ~IsSmallBlind(self, player_id)
    /\ self.player_positions.big_blind = player_id

\* the Player record with the stack the hand was created with
ApiPlayer_StartingStack(self, i) ==
    [ id |-> i + 1,
      stack |-> self.pokerkit_state.starting_stacks[i],
      hole_cards |-> ReportedHoleCards(self, i),
      current_bet |-> self.pokerkit_state.bets[i],
      is_folded |-> ~self.pokerkit_state.statuses[i],
      is_all_in |-> (self.pokerkit_state.stacks[i] = 0
                     /\ self.pokerkit_state.statuses[i]),
      is_dealer |-> IsDealer(self, i + 1),
      is_small_blind |-> IsSmallBlind(self, i + 1),
      is_big_blind |-> IsBigBlind(self, i + 1) ]

\* the Player record _create_api_state builds for seat i
ApiPlayer(self, i) ==
    [ id |-> i + 1,
      stack |-> self.pokerkit_state.stacks[i],
      hole_cards |-> ReportedHoleCards(self, i),
      current_bet |-> self.pokerkit_state.bets[i],
      is_folded |-> ~self.pokerkit_state.statuses[i],
      is_all_in |-> (self.pokerkit_state.stacks[i] = 0
                     /\ self.pokerkit_state.statuses[i]),
      is_dealer |-> IsDealer(self, i + 1),
      is_small_blind |-> IsSmallBlind(self, i + 1),
      is_big_blind |-> IsBigBlind(self, i + 1) ]

\* dealer_position of _create_api_state: the id of the first player flagged
\* dealer, 0 when there is none
DealerPosition(players) ==
    IF \A i \in PlayerIndices : ~players[i].is_dealer THEN 0
    ELSE players[CHOOSE i \in PlayerIndices :
                    /\ players[i].is_dealer
                    /\ \A j \in PlayerIndices : players[j].is_dealer => i <= j].id

\* the GameState _create_api_state returns around the players it has built
ApiState(self, pk, players) ==
    [ players |-> players,
      community_cards |->
          [k \in 1..Len(pk.board_cards) |->
              ApiCardOfStr(PkCardStr(pk.board_cards[k]))],
      pot |-> Sum(pk.bets),
      current_bet |-> MaxOf(pk.bets),
      stage |-> GetCurrentStage(pk),
      dealer_position |-> DealerPosition(players),
      current_player |->
          IF PkActorIndex(pk) # NoActor THEN PkActorIndex(pk) + 1 ELSE 1,
      actions |-> self.state.actions,
      small_blind |-> SmallBlind,
      big_blind |-> BigBlind,
      is_finished |-> ~pk.status,
      winner_id |-> self.state.winner_id,
      winner_reason |-> self.state.winner_reason,
      created_at |-> self.state.created_at ]

\* _create_api_state: the GameState rebuilt from PokerKit; actions and the
\* winner fields are carried over from the previous self.state
CreateApiState(self) ==
    ApiState(self, self.pokerkit_state,
             [i \in PlayerIndices |-> ApiPlayer(self, i)])

\* what _create_api_state uses when self.state does not exist yet: no
\* actions, no winner, datetime.now() as the creation time
NoState(now) ==
    [actions |-> <<>>, winner_id |-> NoneId, winner_reason |-> <<>>,
     created_at |-> now]

\* initialize_detailed_logging: start line, the hole cards of each player,
\* the separator and the blinds read off the bets (PokerKit's state has no
\* dealer_position, so no dealer line is written)
InitializeDetailedLogging(self) ==
    <<<<"Game started with 6 players">>>>
    \o SelectSeq([k \in 1..NumPlayers |->
                    <<"is dealt", k,
                      [c \in 1..Len(GetPlayerHoleCards(self, k)) |->
                          CardStr(GetPlayerHoleCards(self, k)[c])]>>],
                 LAMBDA e : e[3] # <<>>)
    \o <<<<"---">>>>
    \o (IF LastIdWithBet(self.pokerkit_state, SmallBlind) # NoneId
        THEN <<<<"posts small blind",
                 LastIdWithBet(self.pokerkit_state, SmallBlind)>>>>
        ELSE <<>>)
    \o (IF LastIdWithBet(self.pokerkit_state, BigBlind) # NoneId
        THEN <<<<"posts big blind",
                 LastIdWithBet(self.pokerkit_state, BigBlind)>>>>
        ELSE <<>>)

\* self.state = self._create_api_state()
RebuildState(self) == [self EXCEPT !.state = CreateApiState(self)]

\* self.detailed_log = [] and initialize_detailed_logging()
StartLog(self) ==
    [self EXCEPT !.detailed_log = InitializeDetailedLogging(self)]

\* the fields of the object once PokerKit's state stands and the hole cards
\* are dealt
NewGameAround(pk, stacks, fallback_deck, now) ==
    StartLog(RebuildState(
        [ pokerkit_state |-> pk,
          state |-> NoState(now),
          player_stacks |-> stacks,
          unique_hole_cards |-> InitializeUniqueCards(fallback_deck),
          player_positions |-> StoreInitialPositions(pk),
          detailed_log |-> <<>> ]))

\* PokerGame.__init__(player_stacks), with the three shuffles it draws
NewGame(stacks, deal_deck, fallback_deck, board_deck, now) ==
    NewGameAround(
        DealInitialCards(
            PkCreateState([i \in PlayerIndices |-> stacks[i + 1]], board_deck),
            deal_deck, 0),
        stacks, fallback_deck, now)

\* a logger that starts the list over with each entry
LogAction_Replacing(self, player_id, action, amount) ==
    [self EXCEPT
        !.state.actions =
            <<[player_id |-> player_id, action |-> action, amount |-> amount]>>,
        !.detailed_log =
            Append(@, <<"player_action", player_id, action,
                        IF amount > 0 THEN amount ELSE 0>>)]

\* _log_action (the later definition): one PlayerAction on state.actions and
\* one player_action entry on the detailed log
LogAction(self, player_id, action, amount) ==
    [self EXCEPT
        !.state.actions =
            Append(@, [player_id |-> player_id, action |-> action,
                       amount |-> amount]),
        !.detailed_log =
            Append(@, <<"player_action", player_id, action,
                        IF amount > 0 THEN amount ELSE 0>>)]

\* the board of self.state as the strings the log prints
StateBoardStrs(self) ==
    [k \in 1..Len(self.state.community_cards) |->
        CardStr(self.state.community_cards[k])]

\* _log_stage_transition: reads the board of self.state, not PokerKit's
LogStageTransition(self, new_stage) ==
    IF new_stage = "flop" /\ Len(self.state.community_cards) >= 3
    THEN [self EXCEPT !.detailed_log =
             Append(@, <<"Flop cards dealt", SubSeq(StateBoardStrs(self), 1, 3)>>)]
    ELSE IF new_stage = "turn" /\ Len(self.state.community_cards) >= 4
    THEN [self EXCEPT !.detailed_log =
             Append(@, <<"Turn card dealt", StateBoardStrs(self)[4]>>)]
    ELSE IF new_stage = "river" /\ Len(self.state.community_cards) >= 5
    THEN [self EXCEPT !.detailed_log =
             Append(@, <<"River card dealt", StateBoardStrs(self)[5]>>)]
    ELSE self

\* _log_hand_completion
LogHandCompletion(self, winner_id, pot_amount) ==
    [self EXCEPT !.detailed_log =
        @ \o << <<"Final pot was", pot_amount>>,
                <<"calls", winner_id>>,
                <<"Hand ended">> >>]

---------------------------------------------------------------------------
(* Progression and winner determination *)

\* the check-or-call entry of get_valid_actions
CheckOrCallEntry(pk, player_index) ==
    IF ~PkCanCheckOrCall(pk) THEN {}
    ELSE IF MaxOf(pk.bets) = pk.bets[player_index] THEN {"check"}
    ELSE {"call"}

\* the bet-or-raise entry that never offers a bet
BetOrRaiseEntry_AlwaysRaise(pk) ==
    IF ~PkCanCompleteBetOrRaiseTo(pk, MaxOf(pk.bets) + BigBlind) THEN {}
    ELSE {"raise"}

\* the bet-or-raise entry: probed with a raise to current_bet + big blind
BetOrRaiseEntry(pk) ==
    IF ~PkCanCompleteBetOrRaiseTo(pk, MaxOf(pk.bets) + BigBlind) THEN {}
    ELSE IF MaxOf(pk.bets) = 0 THEN {"bet"}
    ELSE {"raise"}

\* the all-in entry: probed with a raise to the player's stack
AllInEntry(pk, player_index) ==
    IF /\ pk.stacks[player_index] > 0
       /\ PkCanCompleteBetOrRaiseTo(pk, pk.stacks[player_index])
    THEN {"all_in"}
    ELSE {}

\* get_valid_actions without the check that the player is the one to act
GetValidActions_AnyPlayer(self, player_id) ==
    IF PkActorIndex(self.pokerkit_state) = NoActor
    THEN {}
    ELSE (IF PkCanFold(self.pokerkit_state) THEN {"fold"} ELSE {})
         \cup CheckOrCallEntry(self.pokerkit_state, player_id - 1)
         \cup BetOrRaiseEntry(self.pokerkit_state)
         \cup AllInEntry(self.pokerkit_state, player_id - 1)

\* get_valid_actions answering for every seat while somebody is to act
GetValidActions_AnySeat(self, player_id) ==
    IF \/ PkActorIndex(self.pokerkit_state) = NoActor
       \/ player_id \notin PlayerIds
    THEN {}
    ELSE (IF PkCanFold(self.pokerkit_state) THEN {"fold"} ELSE {})
         \cup CheckOrCallEntry(self.pokerkit_state, player_id - 1)
         \cup BetOrRaiseEntry(self.pokerkit_state)
         \cup AllInEntry(self.pokerkit_state, player_id - 1)

\* get_valid_actions(player_id)
GetValidActions(self, player_id) ==
    IF \/ PkActorIndex(self.pokerkit_state) = NoActor
       \/ PkActorIndex(self.pokerkit_state) # player_id - 1
    THEN {}
    ELSE (IF PkCanFold(self.pokerkit_state) THEN {"fold"} ELSE {})
         \cup CheckOrCallEntry(self.pokerkit_state, player_id - 1)
         \cup BetOrRaiseEntry(self.pokerkit_state)
         \cup AllInEntry(self.pokerkit_state, player_id - 1)

\* _check_all_in_situation: nobody to act and no player in the hand holds chips
CheckAllInSituation(self) ==
    /\ PkActorIndex(self.pokerkit_state) = NoActor
    /\ ~\E i \in PlayerIndices :
           self.pokerkit_state.statuses[i] /\ self.pokerkit_state.stacks[i] > 0

\* if can_burn_card(): burn_card()
BurnIfPossible(pk) == IF PkCanBurnCard(pk) THEN PkBurnCard(pk) ELSE pk

\* if can_deal_board(): deal_board()
DealBoardIfPossible(pk) == IF PkCanDealBoard(pk) THEN PkDealBoard(pk) ELSE pk

\* PokerKit's state replaced by pk_after, with the stage transition logged
\* when the stage read before differs from the stage read after
AfterDeal(self, old_stage, pk_after) ==
    IF old_stage # GetCurrentStage(pk_after)
    THEN LogStageTransition([self EXCEPT !.pokerkit_state = pk_after],
                            GetCurrentStage(pk_after))
    ELSE [self EXCEPT !.pokerkit_state = pk_after]

\* _deal_all_remaining_cards: while board_count < 5, burn if possible and
\* deal_board() if possible, counting one per deal_board() call; the loop
\* breaks when no board can be dealt
RECURSIVE DealAllRemainingCards(_, _)
DealRemainingStep(self, burnt, board_count) ==
    IF PkCanDealBoard(burnt)
    THEN DealAllRemainingCards(
             AfterDeal(self, GetCurrentStage(burnt), PkDealBoard(burnt)),
             board_count + 1)
    ELSE [self EXCEPT !.pokerkit_state = burnt]

DealAllRemainingCards(self, board_count) ==
    IF board_count >= BoardSize THEN self
    ELSE DealRemainingStep(self, BurnIfPossible(self.pokerkit_state), board_count)

\* the players _determine_winner counts as active: two hole cards in
\* PokerKit and a status that is not folded, in seat order
ActivePlayers(pk) ==
    SelectSeq(SeatsFrom(0),
              LAMBDA i : Len(pk.hole_cards[i]) = 2 /\ pk.statuses[i])

\* State.payoffs
PkPayoffs(pk) == [i \in PlayerIndices |-> pk.stacks[i] - pk.starting_stacks[i]]

\* _evaluate_showdown_with_pokerkit: PokerKit's state has no
\* showdown_winners; a player of the list with a positive payoff is
\* returned, else the first of the list; every return adds 1 to the index
EvaluateShowdownWithPokerkit(self, active_player_indices) ==
    IF \E k \in 1..Len(active_player_indices) :
           PkPayoffs(self.pokerkit_state)[active_player_indices[k]] > 0
    THEN Head(SelectSeq(active_player_indices,
                        LAMBDA i : PkPayoffs(self.pokerkit_state)[i] > 0)) + 1
    ELSE Head(active_player_indices) + 1

\* winner_index of _determine_winner
WinnerIndex(self, active_players) ==
    IF Len(active_players) = 1
    THEN Head(active_players)
    ELSE EvaluateShowdownWithPokerkit(self, active_players)

\* pot_amount of _determine_winner: total_pot_amount, or the chips missing
\* from the stacks when that is 0
PotAmount(self) ==
    IF PkTotalPotAmount(self.pokerkit_state) # 0
    THEN PkTotalPotAmount(self.pokerkit_state)
    ELSE SumOver([i \in PlayerIndices |->
                    self.player_stacks[i + 1] - self.pokerkit_state.stacks[i]],
                 PlayerIndices)

\* the winner fields without winner_id
MarkFinished_NoWinner(st, winner_id, pot_amount) ==
    [st EXCEPT !.winner_reason = <<"wins the hand", winner_id>>,
               !.pot = pot_amount,
               !.is_finished = TRUE,
               !.stage = "finished"]

\* the winner fields written on self.state
MarkFinished(st, winner_id, pot_amount) ==
    [st EXCEPT !.winner_id = winner_id,
               !.winner_reason = <<"wins the hand", winner_id>>,
               !.pot = pot_amount,
               !.is_finished = TRUE,
               !.stage = "finished"]

\* the tail of _determine_winner, self.player_stacks[winner_id] already
\* raised: the state is marked and its stacks set from player_stacks, then
\* rebuilt by _create_api_state and marked again, and the hand is logged
FinishHand(self, winner_id, pot_amount) ==
    LogHandCompletion(
        [self EXCEPT !.state =
            MarkFinished(
                CreateApiState(
                    [self EXCEPT !.state =
                        [MarkFinished(@, winner_id, pot_amount) EXCEPT
                            !.players =
                                [i \in PlayerIndices |->
                                    [@[i] EXCEPT
                                        !.stack = self.player_stacks[i + 1]]]]]),
                winner_id, pot_amount)],
        winner_id, pot_amount)

\* self.player_stacks[winner_id] += pot_amount; a winner_id that is no key of
\* the mapping raises KeyError, which _determine_winner catches and prints
AwardPot(self, winner_id, pot_amount) ==
    IF winner_id \notin DOMAIN self.player_stacks THEN self
    ELSE FinishHand([self EXCEPT !.player_stacks[winner_id] = @ + pot_amount],
                    winner_id, pot_amount)

\* _determine_winner
DetermineWinner(self) ==
    IF ActivePlayers(self.pokerkit_state) = <<>> THEN self
    ELSE AwardPot(self,
                  WinnerIndex(self, ActivePlayers(self.pokerkit_state)) + 1,
                  PotAmount(self))

\* a normal progression that deals nothing
DealStage_Nothing(pk) == pk

\* the deal_board() calls of the normal progression, by the number of board
\* cards: three for the flop, one for the turn, one for the river
DealStage(pk) ==
    IF Len(pk.board_cards) = 0
    THEN DealBoardIfPossible(DealBoardIfPossible(DealBoardIfPossible(pk)))
    ELSE IF Len(pk.board_cards) = 3 \/ Len(pk.board_cards) = 4
    THEN DealBoardIfPossible(pk)
    ELSE pk

\* the dealing of the next street in _handle_automatic_progression, the card
\* burnt if that was possible
DealNextStageFrom(self, burnt) ==
    IF PkCanDealBoard(burnt)
    THEN AfterDeal(self, GetCurrentStage(burnt), DealStage(burnt))
    ELSE [self EXCEPT !.pokerkit_state = burnt]

DealNextStage(self) == DealNextStageFrom(self, BurnIfPossible(self.pokerkit_state))

\* the end conditions without the one for a single player left
GameShouldEnd_NoFoldOut(pk) ==
    \/ ~pk.status
    \/ (Len(pk.board_cards) >= BoardSize /\ PkActorIndex(pk) = NoActor)

\* the three conditions under which _handle_automatic_progression ends the hand
GameShouldEnd(pk) ==
    \/ ~pk.status
    \/ ActiveCount(pk) <= 1
    \/ (Len(pk.board_cards) >= BoardSize /\ PkActorIndex(pk) = NoActor)

\* if game_should_end: _determine_winner()
EndIfComplete(self) ==
    IF GameShouldEnd(self.pokerkit_state) THEN DetermineWinner(self) ELSE self

\* _handle_automatic_progression
HandleAutomaticProgression(self) ==
    IF CheckAllInSituation(self)
    THEN DetermineWinner(
             DealAllRemainingCards(self, Len(self.pokerkit_state.board_cards)))
    ELSE EndIfComplete(DealNextStage(self))

---------------------------------------------------------------------------
(* The public calls *)

\* a refusal that leaves a line on the log
Rejected_Logged(self) ==
    [ok |-> FALSE,
     self |-> [self EXCEPT !.detailed_log = Append(@, <<"refused">>)]]

\* what execute_action returns when it refuses
Rejected(self) == [ok |-> FALSE, self |-> self]

\* execute_action after the PokerKit call: _log_action, the state rebuilt,
\* the automatic progression, return True
Accepted(self, pk_after, player_id, action, logged_amount) ==
    [ok |-> TRUE,
     self |-> HandleAutomaticProgression(
                  RebuildState(
                      LogAction([self EXCEPT !.pokerkit_state = pk_after],
                                player_id, action, logged_amount)))]

\* the branch of execute_action for the action type, pk the PokerKit state
\* of self
ExecuteBranch(self, pk, player_id, action, amount) ==
    CASE action = "fold" ->
            IF PkCanFold(pk)
            THEN Accepted(self, PkFold(pk), player_id, action, 0)
            ELSE Rejected(self)
      [] action = "check" ->
            IF PkCanCheckOrCall(pk) /\ MaxOf(pk.bets) = pk.bets[player_id - 1]
            THEN Accepted(self, PkCheckOrCall(pk), player_id, action, 0)
            ELSE Rejected(self)
      [] action = "call" ->
            IF PkCanCheckOrCall(pk)
            THEN Accepted(self, PkCheckOrCall(pk), player_id, action,
                          PkCheckingOrCallingAmount(pk))
            ELSE Rejected(self)
      [] action \in {"bet", "raise"} ->
            IF PkCanCompleteBetOrRaiseTo(pk, amount)
            THEN Accepted(self, PkCompleteBetOrRaiseTo(pk, amount),
                          player_id, action, amount)
            ELSE Rejected(self)
      [] action = "all_in" ->
            IF /\ pk.stacks[player_id - 1] > 0
               /\ PkCanCompleteBetOrRaiseTo(pk, pk.stacks[player_id - 1])
            THEN Accepted(self,
                          PkCompleteBetOrRaiseTo(pk, pk.stacks[player_id - 1]),
                          player_id, action, pk.stacks[player_id - 1])
            ELSE Rejected(self)
      [] OTHER -> Rejected(self)

\* execute_action without the check that it is the player's turn
ExecuteActionOn_AnyTurn(self, player_id, action, amount) ==
    IF \/ PkActorIndex(self.pokerkit_state) = NoActor
       \/ player_id \notin PlayerIds
    THEN Rejected(self)
    ELSE ExecuteBranch(self, self.pokerkit_state, player_id, action, amount)

\* execute_action(player_id, action, amount): [ok, self], the value returned
\* and the object afterwards
ExecuteActionOn(self, player_id, action, amount) ==
    IF \/ PkActorIndex(self.pokerkit_state) = NoActor
       \/ PkActorIndex(self.pokerkit_state) # player_id - 1
    THEN Rejected(self)
    ELSE ExecuteBranch(self, self.pokerkit_state, player_id, action, amount)

\* the dictionary get_game_state returns for the state st: cards as strings
StateData(st, log) ==
    [ players |->
          [i \in PlayerIndices |->
              [st.players[i] EXCEPT !.hole_cards =
                  [k \in 1..Len(@) |-> CardStr(@[k])]]],
      community_cards |->
          [k \in 1..Len(st.community_cards) |-> CardStr(st.community_cards[k])],
      pot |-> st.pot,
      current_bet |-> st.current_bet,
      stage |-> st.stage,
      dealer_position |-> st.dealer_position,
      current_player |-> st.current_player,
      actions |-> st.actions,
      small_blind |-> st.small_blind,
      big_blind |-> st.big_blind,
      is_finished |-> st.is_finished,
      winner_id |-> st.winner_id,
      winner_reason |-> st.winner_reason,
      created_at |-> st.created_at,
      detailed_log |-> log ]

\* a refresh that does not stop at a finished hand
RefreshState_Always(self) ==
    [self EXCEPT !.state =
        [CreateApiState(self) EXCEPT !.actions = self.state.actions]]

\* a refresh that leaves a line on the log
RefreshState_Logging(self) ==
    IF ~self.state.is_finished
    THEN [self EXCEPT
             !.state = [CreateApiState(self) EXCEPT !.actions = self.state.actions],
             !.detailed_log = Append(@, <<"state requested">>)]
    ELSE self

\* the refresh get_game_state makes first: self.state is rebuilt unless the
\* hand is finished (the actions are kept)
RefreshState(self) ==
    IF ~self.state.is_finished
    THEN [self EXCEPT !.state =
             [CreateApiState(self) EXCEPT !.actions = self.state.actions]]
    ELSE self

\* [self, data]: the object after the refresh and the dictionary returned
Snapshot(self) ==
    [self |-> self, data |-> StateData(self.state, self.detailed_log)]

\* get_game_state
GetGameStateOn(self) == Snapshot(RefreshState(self))

---------------------------------------------------------------------------
(* The state machine *)

\* the PokerGame object, as the record the operators work on
Self ==
    [ pokerkit_state |-> pokerkit_state,
      state |-> state,
      player_stacks |-> player_stacks,
      unique_hole_cards |-> unique_hole_cards,
      player_positions |-> player_positions,
      detailed_log |-> detailed_log ]

Becomes(self) ==
    /\ pokerkit_state' = self.pokerkit_state
    /\ state' = self.state
    /\ player_stacks' = self.player_stacks
    /\ unique_hole_cards' = self.unique_hole_cards
    /\ player_positions' = self.player_positions
    /\ detailed_log' = self.detailed_log

\* the player ids and amounts the callers submit
PlayerIdInputs == 0..(NumPlayers + 1)

AmountInputs ==
    LET pk == pokerkit_state
        i == PkActorIndex(pk)
    IN  {0, MaxOf(pk.bets) + MinBet}
        \cup (IF i = NoActor THEN {} ELSE {pk.stacks[i] + pk.bets[i]})

\* the id of the player to act, None when nobody is
ActorId ==
    IF PkActorIndex(pokerkit_state) = NoActor THEN NoneId
    ELSE PkActorIndex(pokerkit_state) + 1

\* active_games = {} at import, and no request handled yet
NoGames == [game_id \in {} |-> NoneId]

\* the hand_history table as create_tables() leaves it, the server reachable
NoRows == [up |-> TRUE, hand_history |-> <<>>]

NoCall ==
    [op |-> "none", player_stacks |-> <<>>, game_id |-> NoneId,
     status |-> 0, detail |-> ""]

\* the object in the variables
IsGame(game) ==
    /\ pokerkit_state = game.pokerkit_state
    /\ state = game.state
    /\ player_stacks = game.player_stacks
    /\ unique_hole_cards = game.unique_hole_cards
    /\ player_positions = game.player_positions
    /\ detailed_log = game.detailed_log

Init ==
    \E sc \in Scenarios, d \in DealShuffles, f \in FallbackShuffles,
       b \in BoardShuffles, now \in CreationTimes :
        /\ IsGame(NewGame(sc.stacks, Shuffle(d), Shuffle(f), Shuffle(b), now))
        /\ raises_left = sc.raises
        /\ irregular_left = sc.irregular
        /\ active_games = NoGames
        /\ last_call = NoCall
        /\ acted_in_round = {}
        /\ database = NoRows

\* the call r == [ok, self] made; raising and irregular say what the
\* submission costs of the budgets
Submit(r, raising, irregular) ==
    IF r.ok
    THEN /\ Len(state.actions) < MaxActions
         /\ raising => raises_left > 0
         /\ irregular => irregular_left > 0
         /\ Becomes(r.self)
         /\ raises_left' = IF raising THEN raises_left - 1 ELSE raises_left
         /\ irregular_left' =
                IF irregular THEN irregular_left - 1 ELSE irregular_left
         /\ acted_in_round' =
                IF Len(r.self.pokerkit_state.board_cards)
                       > Len(pokerkit_state.board_cards)
                THEN {}
                ELSE acted_in_round
                         \cup {r.self.state.actions[Len(r.self.state.actions)].player_id}
         /\ UNCHANGED <<active_games, last_call, database>>
    ELSE UNCHANGED vars

\* one execute_action call
ExecuteAction(player_id, action, amount) ==
    Submit(ExecuteActionOn(Self, player_id, action, amount),
           action \in {"bet", "raise", "all_in"},
           action \notin GetValidActions(Self, player_id))

\* one get_game_state call
GetGameState ==
    /\ Becomes(GetGameStateOn(Self).self)
    /\ UNCHANGED <<raises_left, irregular_left, active_games, last_call,
                   acted_in_round, database>>

\* calls in the name of the player to act
ActorSubmits ==
    /\ ActorId # NoneId
    /\ \/ \E action \in {"fold", "check", "call", "all_in"} :
              ExecuteAction(ActorId, action, 0)
       \/ \E action \in {"bet", "raise"}, amount \in AmountInputs :
              ExecuteAction(ActorId, action, amount)

\* calls in the name of anybody else, ids outside 1..6 included
OtherSubmits ==
    \E player_id \in PlayerIdInputs \ {ActorId}, action \in ActionTypes :
        ExecuteAction(player_id, action, 0)

Next ==
    \/ ActorSubmits
    \/ OtherSubmits
    \/ GetGameState

Spec == Init /\ [][Next]_vars

---------------------------------------------------------------------------
(* What the callers see *)

\* the dictionary a get_game_state call made now would return
SnapshotNow == GetGameStateOn(Self).data

\* the order of GameStage
StageRank(stage) ==
    CASE stage = "preflop" -> 0
      [] stage = "flop" -> 1
      [] stage = "turn" -> 2
      [] stage = "river" -> 3
      [] stage = "finished" -> 4

\* the chips the hand was created with
StartingTotal == Sum(pokerkit_state.starting_stacks)

\* the stacks state.players reports, summed
ReportedStackTotal ==
    SumOver([i \in PlayerIndices |-> state.players[i].stack], PlayerIndices)

---------------------------------------------------------------------------
(* Properties *)

\* C1: chip conservation. In the initial state and after every accepted
\* execute_action, the six stacks of state.players plus state.pot add up to
\* the starting stacks the hand was created with.
C1_ChipConservation == ReportedStackTotal + state.pot = StartingTotal

\* C2: single actor. In every reachable state at most one of the six players
\* has a non-empty get_valid_actions result.
C2_SingleActor ==
    Cardinality({p \in PlayerIds : GetValidActions(Self, p) # {}}) <= 1

\* C2 witness: a hand under way in which one player, and only one, has
\* actions to choose from
C2_Witness ==
    /\ state.actions # <<>>
    /\ Cardinality({p \in PlayerIds : GetValidActions(Self, p) # {}}) = 1

\* C3: stage monotonicity. Over execute_action and get_game_state calls on
\* one hand state.stage, which is what each get_game_state call reports,
\* never moves backward in the order preflop, flop, turn, river, finished.
C3_StageMonotonic ==
    [][StageRank(state'.stage) >= StageRank(state.stage)]_vars

\* C3 witness: a hand marked finished whose board, read again, would say river
C3_Witness ==
    /\ state.stage = "finished"
    /\ GetCurrentStage(pokerkit_state) = "river"

\* C4: in every reachable state is_finished is true exactly when winner_id
\* is set and the stage is finished.
C4_FinishedIffWinner ==
    state.is_finished <=> (state.winner_id # NoneId /\ state.stage = "finished")

\* C4 witness: a finished hand with its winner
C4_Witness ==
    /\ state.is_finished
    /\ state.winner_id \in PlayerIds
    /\ state.stage = "finished"

\* five accepted actions, every one a fold
FiveFolds ==
    /\ Len(state.actions) = 5
    /\ \A k \in 1..5 : state.actions[k].action = "fold"

\* C5: termination by fold. After the actor has folded five times in turn
\* from a fresh hand, the hand is finished, exactly one player is not folded
\* and winner_id is that player's id.
C5_TerminationByFold ==
    FiveFolds =>
        /\ state.is_finished
        /\ Cardinality({i \in PlayerIndices : ~state.players[i].is_folded}) = 1
        /\ \A i \in PlayerIndices :
               ~state.players[i].is_folded => state.winner_id = state.players[i].id

\* C5 witness: the fifth fold made and the hand over
C5_Witness == FiveFolds /\ state.is_finished /\ state.winner_id # NoneId

\* C6: pot award. In a finished hand the winner's reported stack is the stack
\* the winner held just before the award plus the pot, and every other
\* player's reported stack is the one held before.
C6_PotAwarded ==
    state.is_finished =>
        \A i \in PlayerIndices :
            state.players[i].stack =
                pokerkit_state.stacks[i]
                + (IF state.players[i].id = state.winner_id THEN state.pot ELSE 0)

\* the hole cards state.players reports, seat after seat, then the board
AllReportedCards ==
    state.players[0].hole_cards \o state.players[1].hole_cards
    \o state.players[2].hole_cards \o state.players[3].hole_cards
    \o state.players[4].hole_cards \o state.players[5].hole_cards
    \o state.community_cards

NoRepeats(cards) ==
    \A j, k \in 1..Len(cards) : j # k => cards[j] # cards[k]

\* C7: card uniqueness. In every reachable state the twelve hole cards
\* reported for the six players and the community cards hold no card twice,
\* the cards reported for folded players included.
C7_CardUniqueness ==
    /\ \A i \in PlayerIndices : Len(state.players[i].hole_cards) = 2
    /\ NoRepeats(AllReportedCards)

\* six accepted actions and no bet, raise or all-in among them: every player
\* has answered the big blind once
PreflopAnswered ==
    /\ Len(state.actions) = NumPlayers
    /\ \A k \in 1..NumPlayers :
           state.actions[k].action \in {"fold", "call", "check"}

C9_AllInFastForward ==
    (/\ state.actions # <<>>
     /\ PkActorIndex(pokerkit_state) = NoActor
     /\ ActiveCount(pokerkit_state) >= 2)
    => /\ Len(pokerkit_state.board_cards) = BoardSize
       /\ state.is_finished
       /\ state.stage = "finished"
       /\ state.winner_id # NoneId

\* what execute_action answers and, when it accepts, the object afterwards
SameOutcome(r1, r2) == r1.ok = r2.ok /\ (r1.ok => r1.self = r2.self)

\* get_valid_actions and execute_action answer the same on both objects
SameAnswers(self, after) ==
    /\ \A p \in PlayerIdInputs :
           GetValidActions(after, p) = GetValidActions(self, p)
    /\ \A p \in PlayerIdInputs, action \in ActionTypes :
           \A amount \in (IF action \in {"bet", "raise"} THEN AmountInputs ELSE {0}) :
               SameOutcome(ExecuteActionOn(after, p, action, amount),
                           ExecuteActionOn(self, p, action, amount))

\* the second of two get_game_state calls in a row returns what the first did
SameSnapshot(first) == GetGameStateOn(first.self).data = first.data

\* C10: idempotent snapshot. In any reachable state two get_game_state calls
\* in a row return identical data, and get_valid_actions and execute_action
\* answer after a get_game_state call what they answer without it.
C10_IdempotentSnapshot ==
    /\ SameSnapshot(GetGameStateOn(Self))
    /\ SameAnswers(Self, GetGameStateOn(Self).self)

\* C10 witness: a hand under way whose stored state is behind, so that the
\* first get_game_state call rebuilds it
C10_Witness ==
    /\ ~state.is_finished
    /\ state.actions # <<>>
    /\ GetGameStateOn(Self).self.state # state

---------------------------------------------------------------------------
(* The hand as constructed *)

\* a hand of six stacks of 1000 on which no action has been accepted
FreshHand ==
    /\ state.actions = <<>>
    /\ \A i \in PlayerIndices : pokerkit_state.starting_stacks[i] = 1000

\* the players flagged small blind and big blind
SmallBlindPlayers == {i \in PlayerIndices : state.players[i].is_small_blind}
BigBlindPlayers == {i \in PlayerIndices : state.players[i].is_big_blind}

\* C11: a hand created with six stacks of 1000 has pot 60, current_bet 40,
\* stage preflop, is_finished false and two hole cards for every player; the
\* small-blind player has current_bet 20 and stack 980, the big-blind player
\* current_bet 40 and stack 960, every other player stack 1000
C11_InitialState ==
    FreshHand =>
        /\ state.pot = 60
        /\ state.current_bet = 40
        /\ state.stage = "preflop"
        /\ ~state.is_finished
        /\ \A i \in PlayerIndices : Len(state.players[i].hole_cards) = 2
        /\ Cardinality(SmallBlindPlayers) = 1
        /\ Cardinality(BigBlindPlayers) = 1
        /\ \A i \in SmallBlindPlayers :
               state.players[i].current_bet = 20 /\ state.players[i].stack = 980
        /\ \A i \in BigBlindPlayers :
               state.players[i].current_bet = 40 /\ state.players[i].stack = 960
        /\ \A i \in PlayerIndices \ (SmallBlindPlayers \cup BigBlindPlayers) :
               state.players[i].current_bet = 0 /\ state.players[i].stack = 1000

\* the fresh hand, its blinds posted by two different players
C11_Witness ==
    /\ FreshHand
    /\ \E i \in SmallBlindPlayers, j \in BigBlindPlayers :
           i # j /\ state.players[i].stack + state.players[j].stack = 1940

---------------------------------------------------------------------------
(* Refused calls *)

\* the amounts a caller may send: those submitted, and amounts below the
\* minimum raise and above what the player to act can put in
RequestAmounts ==
    AmountInputs
    \cup {1, MaxOf(pokerkit_state.bets) + MinBet - 1}
    \cup {a + 1 : a \in AmountInputs}

\* player_id is not the player to act: actor_index is None or another index
OutOfTurn(player_id) ==
    \/ PkActorIndex(pokerkit_state) = NoActor
    \/ PkActorIndex(pokerkit_state) # player_id - 1

\* C12: execute_action called for any player other than the player to act,
\* ids outside 1..6 included, returns False for every action type and amount
C12_TurnViolation ==
    \A player_id \in PlayerIdInputs, action \in ActionTypes,
       amount \in RequestAmounts :
        OutOfTurn(player_id) =>
            ~ExecuteActionOn(Self, player_id, action, amount).ok

\* mid-hand, a player still in the hand with chips is refused while another
\* player is to act
C12_Witness ==
    /\ state.actions # <<>>
    /\ ActorId # NoneId
    /\ \E player_id \in PlayerIds :
           /\ OutOfTurn(player_id)
           /\ pokerkit_state.statuses[player_id - 1]
           /\ pokerkit_state.stacks[player_id - 1] > 0
           /\ ~ExecuteActionOn(Self, player_id, "fold", 0).ok

\* C13: execute_action returns False whenever the action is not a member of
\* get_valid_actions(player_id) evaluated in the same state
C13_OnlyValidActions ==
    \A player_id \in PlayerIdInputs, action \in ActionTypes,
       amount \in RequestAmounts :
        action \notin GetValidActions(Self, player_id) =>
            ~ExecuteActionOn(Self, player_id, action, amount).ok

\* the amounts worth sending with an action: only the bet and raise branch
\* reads the amount
AmountsFor(action) ==
    IF action \in {"bet", "raise"} THEN RequestAmounts ELSE {0}

\* the call r == [ok, self] either succeeded or left the object as it is
RefusedUnchanged(r) == r.ok \/ r.self = Self

\* C14: whenever execute_action returns False (out of turn, action not
\* legal, bet or raise amount outside the legal range) the object is what it
\* was before the call: PokerKit's state, the reported state with its
\* actions, the stacks and the hand log
C14_NoPartialMutation ==
    \A player_id \in PlayerIdInputs, action \in ActionTypes :
        \A amount \in AmountsFor(action) :
            RefusedUnchanged(ExecuteActionOn(Self, player_id, action, amount))

\* mid-hand the player to act is refused a check against a standing bet and
\* a raise to 1, and nothing has changed
C14_Witness ==
    /\ state.actions # <<>>
    /\ ActorId # NoneId
    /\ MaxOf(pokerkit_state.bets) > 0
    /\ ~ExecuteActionOn(Self, ActorId, "check", 0).ok
    /\ ~ExecuteActionOn(Self, ActorId, "raise", 1).ok
    /\ ExecuteActionOn(Self, ActorId, "raise", 1).self = Self

---------------------------------------------------------------------------
(* The request layer: the session store *)

\* the ids uuid4 hands out, as far as they are followed
GameIds == 1..MaxGames

\* the stack mappings sent to the start handler
StartRequests == {sc.stacks : sc \in Scenarios} \cup BadStartRequests

\* the validation of start_game without the check of the stacks
StartGameError_CountOnly(request_stacks) ==
    IF Cardinality(DOMAIN request_stacks) # NumPlayers
    THEN "400: Game requires exactly 6 players"
    ELSE ""

\* the validation of start_game: the HTTPException it raises, as the detail
\* of the answer, "" when the request passes
StartGameError(request_stacks) ==
    IF Cardinality(DOMAIN request_stacks) # NumPlayers
    THEN "400: Game requires exactly 6 players"
    ELSE IF \E player_id \in DOMAIN request_stacks :
                request_stacks[player_id] <= 0
    THEN "400: Player must have positive stack"
    ELSE ""

\* active_games[game_id] = game
Registered(game_id, game) ==
    [id \in DOMAIN active_games \cup {game_id} |->
        IF id = game_id THEN game ELSE active_games[id]]

\* start_game refusing: the HTTPException raised inside the try block is
\* caught by `except Exception` and raised again with status 500
StartRefused(request_stacks, detail) ==
    /\ last_call' = [op |-> "start", player_stacks |-> request_stacks,
                     game_id |-> NoneId, status |-> 500, detail |-> detail]
    /\ UNCHANGED active_games

\* start_game creating the game, storing it under its id and answering with
\* get_game_state()
StartAccepted(request_stacks, game_id, game) ==
    /\ game_id \notin DOMAIN active_games
    /\ active_games' = Registered(game_id, GetGameStateOn(game).self)
    /\ last_call' = [op |-> "start", player_stacks |-> request_stacks,
                     game_id |-> game_id, status |-> 200, detail |-> ""]

\* POST /api/poker/start
StartGame(request_stacks) ==
    /\ IF StartGameError(request_stacks) # ""
       THEN StartRefused(request_stacks, StartGameError(request_stacks))
       ELSE \E game_id \in GameIds, d \in DealShuffles, f \in FallbackShuffles,
               b \in BoardShuffles, now \in CreationTimes :
                StartAccepted(request_stacks, game_id,
                              NewGame(request_stacks, Shuffle(d), Shuffle(f),
                                      Shuffle(b), now))
    /\ UNCHANGED <<pokerkit_state, state, player_stacks, unique_hole_cards,
                   player_positions, detailed_log, raises_left, irregular_left,
                   acted_in_round, database>>

\* DELETE /api/poker/game/{game_id}
ResetGame(game_id) ==
    /\ IF game_id \in DOMAIN active_games
       THEN /\ active_games' =
                  [id \in DOMAIN active_games \ {game_id} |-> active_games[id]]
            /\ last_call' = [op |-> "reset", player_stacks |-> <<>>,
                             game_id |-> game_id, status |-> 200,
                             detail |-> "Game reset successfully"]
       ELSE /\ last_call' = [op |-> "reset", player_stacks |-> <<>>,
                             game_id |-> game_id, status |-> 404,
                             detail |-> "Game not found"]
            /\ UNCHANGED active_games
    /\ UNCHANGED <<pokerkit_state, state, player_stacks, unique_hole_cards,
                   player_positions, detailed_log, raises_left, irregular_left,
                   acted_in_round, database>>

StartsGame == \E request_stacks \in StartRequests : StartGame(request_stacks)

ResetsGame == \E game_id \in GameIds : ResetGame(game_id)

NextApi ==
    \/ StartsGame
    \/ ResetsGame

SpecApi == Init /\ [][NextApi]_vars

\* a stack mapping that does not have exactly 6 players or holds a stack <= 0
IllFormed(request_stacks) ==
    \/ Cardinality(DOMAIN request_stacks) # 6
    \/ \E player_id \in DOMAIN request_stacks : request_stacks[player_id] <= 0

---------------------------------------------------------------------------
(* The winner *)

\* C16: whenever winner_id is set it is the id, in 1..6, of a player who
\* has not folded in this hand, for wins by fold-out and for showdowns
C16_WinnerNotFolded ==
    state.winner_id # NoneId =>
        /\ state.winner_id \in PlayerIds
        /\ ~state.players[state.winner_id - 1].is_folded
        /\ pokerkit_state.statuses[state.winner_id - 1]

\* the ids of the players who have not folded
Contestants == {i + 1 : i \in {j \in PlayerIndices : pokerkit_state.statuses[j]}}

\* the hand has ended with two or more players who have not folded
EndedAtShowdown == state.is_finished /\ Cardinality(Contestants) >= 2

\* C17: when a hand ends at showdown with two or more contestants, the
\* winner is a contestant whose best five-card hand is not out-ranked by
\* another contestant's; stated here is what that needs first, that the
\* winner is one of the contestants
C17_ShowdownWinner ==
    EndedAtShowdown => state.winner_id \in Contestants

---------------------------------------------------------------------------
(* Progress *)

\* C18: the hand never gets stuck: in every reachable unfinished state some
\* player has a non-empty get_valid_actions, so that the hand can be
\* played on to Finished
C18_NeverStuck ==
    ~state.is_finished =>
        \E player_id \in PlayerIds : GetValidActions(Self, player_id) # {}

---------------------------------------------------------------------------
(* The finished hand *)

\* the call r == [ok, self] was refused and left the object as it is
RefusedWhole(r) == ~r.ok /\ r.self = Self

\* C19: once is_finished is true, get_valid_actions is empty for every
\* player, every execute_action returns False and neither call changes the
\* object: stacks, pot, community cards, stage, winner_id, the actions and
\* the log stay what they are
C19_TerminalImmutability ==
    state.is_finished =>
        /\ \A player_id \in PlayerIdInputs : GetValidActions(Self, player_id) = {}
        /\ \A player_id \in PlayerIdInputs, action \in ActionTypes :
               \A amount \in AmountsFor(action) :
                   RefusedWhole(ExecuteActionOn(Self, player_id, action, amount))
        /\ GetGameStateOn(Self).self = Self

\* a finished hand in which a player who has not folded still holds chips,
\* and is refused
C19_Witness ==
    /\ state.is_finished
    /\ \E player_id \in PlayerIds :
           /\ pokerkit_state.statuses[player_id - 1]
           /\ pokerkit_state.stacks[player_id - 1] > 0
           /\ RefusedWhole(ExecuteActionOn(Self, player_id, "check", 0))

---------------------------------------------------------------------------
(* The actor pointer *)

\* the id of players[state.current_player], the player the pointer
\* designates when it is used as an index of the player list; None when it
\* is no index of the list
DesignatedId ==
    IF state.current_player \in PlayerIndices
    THEN state.players[state.current_player].id
    ELSE NoneId

\* C20: after an accepted action that leaves the hand unfinished,
\* players[state.current_player] is the one player whose get_valid_actions
\* is non-empty, and the pointer designates no one when no player can act
C20_ActorPointer ==
    (state.actions # <<>> /\ ~state.is_finished) =>
        /\ DesignatedId = ActorId
        /\ \A player_id \in PlayerIds :
               GetValidActions(Self, player_id) # {} <=> player_id = DesignatedId

---------------------------------------------------------------------------
(* What get_valid_actions offers *)

\* the actions offered to the player to act
ActorActions == GetValidActions(Self, ActorId)

\* the fields of the player to act, as state reports them
Actor == state.players[ActorId - 1]

\* the chips the player to act owes: the round's current_bet minus its own
Owed == state.current_bet - Actor.current_bet

\* player_id is a player state reports as folded or as all-in
FoldedOrAllIn(player_id) ==
    /\ player_id \in PlayerIds
    /\ \/ state.players[player_id - 1].is_folded
       \/ state.players[player_id - 1].is_all_in
       \/ ~pokerkit_state.statuses[player_id - 1]
       \/ pokerkit_state.stacks[player_id - 1] = 0

\* C21: get_valid_actions(player_id) is empty whenever it is not
\* player_id's turn, or that player is folded, or that player is all-in
C21_NoActionsOffTurn ==
    \A player_id \in PlayerIdInputs :
        (OutOfTurn(player_id) \/ FoldedOrAllIn(player_id)) =>
            GetValidActions(Self, player_id) = {}

\* somebody is to act while one player has folded and another is all-in,
\* and neither is offered an action
C21_Witness ==
    /\ ActorId # NoneId
    /\ \E folded \in PlayerIds, all_in \in PlayerIds :
           /\ state.players[folded - 1].is_folded
           /\ state.players[all_in - 1].is_all_in
           /\ GetValidActions(Self, folded) = {}
           /\ GetValidActions(Self, all_in) = {}

\* C22: whenever get_valid_actions(player_id) is non-empty it contains Fold,
\* also when the player owes nothing and Check is offered
C22_FoldOffered ==
    \A player_id \in PlayerIds :
        GetValidActions(Self, player_id) # {} =>
            "fold" \in GetValidActions(Self, player_id)

\* C23: for the player to act, Check is offered exactly when its current_bet
\* equals the round's current_bet, Check and Call are never both offered,
\* and Call is offered only when the owed amount is positive and at most
\* the player's stack
C23_CheckOrCall ==
    ActorId # NoneId =>
        /\ "check" \in ActorActions <=> Owed = 0
        /\ ~("check" \in ActorActions /\ "call" \in ActorActions)
        /\ "call" \in ActorActions => (Owed > 0 /\ Owed <= Actor.stack)

\* C24: for the player to act, Bet is offered only when the round's
\* current_bet is 0 and the player has chips, Raise only when the round's
\* current_bet is positive and the player can cover a raise to current_bet
\* plus the big blind; Bet and Raise are never both offered
C24_BetOrRaise ==
    ActorId # NoneId =>
        /\ "bet" \in ActorActions => (state.current_bet = 0 /\ Actor.stack > 0)
        /\ "raise" \in ActorActions =>
               /\ state.current_bet > 0
               /\ Actor.stack + Actor.current_bet >= state.current_bet + BigBlind
        /\ ~("bet" \in ActorActions /\ "raise" \in ActorActions)

\* after the flop a bet is offered to the player to act, who has had a raise
\* offered before the flop
C24_Witness ==
    /\ ActorId # NoneId
    /\ Len(pokerkit_state.board_cards) >= 3
    /\ "bet" \in ActorActions
    /\ "raise" \notin ActorActions
    /\ Actor.stack >= BigBlind

\* C25: for the player to act, AllIn is offered whenever its stack is
\* positive, whether or not Call, Bet or Raise are offered
C25_AllInOffered ==
    (ActorId # NoneId /\ Actor.stack > 0) => "all_in" \in ActorActions

---------------------------------------------------------------------------
(* What an accepted action does to the chips *)

\* the Player record of the player to act, in the object the call
\* r == [ok, self] leaves
ActorAfter(r) == r.self.state.players[ActorId - 1]

\* the all-in r has emptied the stack: stack 0, is_all_in, the bet grown by
\* the stack held before, the round's current_bet raised to it if higher
AllInCommitsStack(r) ==
    r.ok =>
        /\ ActorAfter(r).stack = 0
        /\ ActorAfter(r).is_all_in
        /\ ActorAfter(r).current_bet = Actor.current_bet + Actor.stack
        /\ r.self.state.current_bet =
               Max2(state.current_bet, ActorAfter(r).current_bet)

\* C26: an accepted AllIn commits the player's entire remaining stack, also
\* for players who already have chips in the round
C26_AllInCommits ==
    ActorId # NoneId =>
        AllInCommitsStack(ExecuteActionOn(Self, ActorId, "all_in", 0))

\* the bet or raise r to `amount` was within current_bet + 40 and the
\* player's stack plus bet, and moved amount minus the previous bet
RaiseToWithinBounds(r, amount) ==
    r.ok =>
        /\ state.current_bet + BigBlind <= amount
        /\ amount <= Actor.stack + Actor.current_bet
        /\ ActorAfter(r).stack = Actor.stack - (amount - Actor.current_bet)
        /\ ActorAfter(r).current_bet = amount
        /\ r.self.state.current_bet = amount
        /\ r.self.state.pot = state.pot + (amount - Actor.current_bet)

\* C27: Bet and Raise are accepted only with current_bet + 40 <= amount <=
\* stack + current_bet of the player; then amount minus the player's
\* previous bet moves from the stack to the pot, and the player's and the
\* round's current_bet are amount
C27_RaiseToBounds ==
    ActorId # NoneId =>
        \A action \in {"bet", "raise"}, amount \in RequestAmounts :
            RaiseToWithinBounds(ExecuteActionOn(Self, ActorId, action, amount),
                                amount)

\* what the player whose turn it is hands over when calling
CallAmount == Min2(Owed, Actor.stack)

CallMoves(r) ==
    r.ok =>
        /\ ActorAfter(r).stack = Actor.stack - CallAmount
        /\ r.self.state.pot = state.pot + CallAmount
        /\ \/ ActorAfter(r).current_bet = r.self.state.current_bet
           \/ ActorAfter(r).stack = 0 /\ ActorAfter(r).is_all_in
        /\ r.self.state.current_bet = state.current_bet

\* C28: an accepted Call takes min(current_bet - the player's bet, the
\* player's stack) from the stack and adds it to the pot; afterwards the
\* player's bet equals the round's current_bet, or the player is out of chips
\* and is_all_in; the round's current_bet is what it was
C28_CallMoves ==
    ActorId # NoneId => CallMoves(ExecuteActionOn(Self, ActorId, "call", 0))

\* the players and the round's bet after an accepted Fold: nothing but the
\* folder's flag differs
FoldFrame(r) ==
    r.ok =>
        /\ r.self.state.players =
               [state.players EXCEPT ![ActorId - 1].is_folded = TRUE]
        /\ r.self.state.current_bet = state.current_bet

\* the players and the round's bet after an accepted Check: nothing differs
CheckFrame(r) ==
    r.ok =>
        /\ r.self.state.players = state.players
        /\ r.self.state.current_bet = state.current_bet

\* whoever has a fold on state.actions is reported folded
StaysFolded ==
    \A k \in 1..Len(state.actions) :
        state.actions[k].action = "fold" =>
            state.players[state.actions[k].player_id - 1].is_folded

\* C29: Fold and Check move no chips: an accepted Fold changes only the
\* actor's is_folded flag, an accepted Check changes no field of any player,
\* neither changes the round's current_bet, and a player who folded stays
\* folded for the rest of the hand
C29_FoldCheckFrame ==
    /\ StaysFolded
    /\ ActorId # NoneId =>
           /\ FoldFrame(ExecuteActionOn(Self, ActorId, "fold", 0))
           /\ CheckFrame(ExecuteActionOn(Self, ActorId, "check", 0))

---------------------------------------------------------------------------
(* The action log *)

\* s is the beginning of t
IsPrefixOf(s, t) == Len(s) <= Len(t) /\ SubSeq(t, 1, Len(s)) = s

\* the entry an accepted call leaves last on state.actions
LastAction(r) == r.self.state.actions[Len(r.self.state.actions)]

\* an accepted call adds one entry for the player and the action at the end
\* of state.actions and lengthens the hand log; a refused call adds nothing
LogsOne(r, player_id, action) ==
    IF r.ok
    THEN /\ Len(r.self.state.actions) = Len(state.actions) + 1
         /\ IsPrefixOf(state.actions, r.self.state.actions)
         /\ LastAction(r).player_id = player_id
         /\ LastAction(r).action = action
         /\ Len(r.self.detailed_log) > Len(detailed_log)
         /\ IsPrefixOf(detailed_log, r.self.detailed_log)
    ELSE /\ r.self.state.actions = state.actions
         /\ r.self.detailed_log = detailed_log

\* get_game_state keeps both lists as they are
ReadKeepsLog(self) ==
    /\ self.state.actions = state.actions
    /\ IsPrefixOf(detailed_log, self.detailed_log)

\* C30: every execute_action that returns True appends exactly one entry
\* with its player_id and action to state.actions and writes to the hand
\* log, one that returns False appends nothing, and no earlier entry of
\* either list is removed, moved or rewritten, by execute_action or by
\* get_game_state
C30_ActionLog ==
    /\ ReadKeepsLog(GetGameStateOn(Self).self)
    /\ ActorId # NoneId =>
           \A action \in ActionTypes :
               \A amount \in AmountsFor(action) :
                   LogsOne(ExecuteActionOn(Self, ActorId, action, amount),
                           ActorId, action)

\* two actions are on the log, the actor's call is accepted and becomes the
\* third entry, and the actor's check is refused
C30_Witness ==
    /\ Len(state.actions) = 2
    /\ ActorId # NoneId
    /\ ExecuteActionOn(Self, ActorId, "call", 0).ok
    /\ Len(ExecuteActionOn(Self, ActorId, "call", 0).self.state.actions) = 3
    /\ ~ExecuteActionOn(Self, ActorId, "check", 0).ok

---------------------------------------------------------------------------
(* The positions, short stacks included *)

\* hands in which a blind cannot be posted in full: seat 1 holds less than
\* the small blind, seat 2 less than the big blind, seat 2 exactly the small
\* blind's amount
ShortScenarios ==
    { [stacks |-> <<10, 1000, 1000, 1000, 1000, 1000>>, raises |-> 1, irregular |-> 0],
      [stacks |-> <<1000, 30, 1000, 1000, 1000, 1000>>, raises |-> 1, irregular |-> 0],
      [stacks |-> <<1000, 20, 1000, 1000, 1000, 1000>>, raises |-> 0, irregular |-> 1] }

InitShort ==
    \E sc \in ShortScenarios, d \in DealShuffles, f \in FallbackShuffles,
       b \in BoardShuffles, now \in CreationTimes :
        /\ IsGame(NewGame(sc.stacks, Shuffle(d), Shuffle(f), Shuffle(b), now))
        /\ raises_left = sc.raises
        /\ irregular_left = sc.irregular
        /\ active_games = NoGames
        /\ last_call = NoCall
        /\ acted_in_round = {}
        /\ database = NoRows

SpecShort == InitShort /\ [][Next]_vars

\* the players state.players flags as dealer
DealerPlayers == {i \in PlayerIndices : state.players[i].is_dealer}

\* C31: in every state of every hand created from six positive stacks, exactly
\* one player is flagged dealer, exactly one small blind and exactly one big
\* blind, and the three are different players
C31_Positions ==
    /\ Cardinality(DealerPlayers) = 1
    /\ Cardinality(SmallBlindPlayers) = 1
    /\ Cardinality(BigBlindPlayers) = 1
    /\ DealerPlayers \cap SmallBlindPlayers = {}
    /\ DealerPlayers \cap BigBlindPlayers = {}
    /\ SmallBlindPlayers \cap BigBlindPlayers = {}

---------------------------------------------------------------------------
(* A new betting round *)

\* the players of st who can still act: not folded, not all-in
Eligible(st) ==
    {i \in PlayerIndices : ~st.players[i].is_folded /\ ~st.players[i].is_all_in}

\* the seat flagged dealer in st
DealerIndex(st) == CHOOSE i \in PlayerIndices : st.players[i].is_dealer

\* the id of the first eligible player in seat order after the dealer
FirstAfterDealer(st) ==
    LET order == SelectSeq(SeatsFrom((DealerIndex(st) + 1) % NumPlayers),
                           LAMBDA i : i \in Eligible(st))
    IN  IF order = <<>> THEN NoneId ELSE Head(order) + 1

\* the accepted call r closed the betting round (PokerKit moved to the next
\* street) and st, the state get_game_state reports after it, is not finished
RoundClosed(r, st) ==
    /\ r.ok
    /\ r.self.pokerkit_state.street_index > pokerkit_state.street_index
    /\ ~st.is_finished

\* st opens a new round: no bets, the next stage, the first eligible player
\* after the dealer to act
OpensRound(r, st) ==
    RoundClosed(r, st) =>
        /\ \A i \in PlayerIndices : st.players[i].current_bet = 0
        /\ st.current_bet = 0
        /\ StageRank(st.stage) = StageRank(GetCurrentStage(pokerkit_state)) + 1
        /\ st.current_player = FirstAfterDealer(st)

OpensRoundAfter(r) == OpensRound(r, GetGameStateOn(r.self).self.state)

\* C32: when an action completes a betting round and the hand goes on, the
\* state reported after it has every current_bet and the round's current_bet
\* at 0, the stage one step further, and as actor the first player after the
\* dealer who is neither folded nor all-in
C32_NewRound ==
    ActorId # NoneId =>
        \A action \in {"fold", "check", "call"} :
            OpensRoundAfter(ExecuteActionOn(Self, ActorId, action, 0))

---------------------------------------------------------------------------
(* The board and the stage *)

\* the stage that goes with n community cards
StageOfBoard(n) ==
    CASE n = 0 -> "preflop"
      [] n = 3 -> "flop"
      [] n = 4 -> "turn"
      [] n = 5 -> "river"
      [] OTHER -> "none"

BoardMatchesStage ==
    /\ Len(state.community_cards) \in {0, 3, 4, 5}
    /\ ~state.is_finished =>
           state.stage = StageOfBoard(Len(state.community_cards))

\* C33: the state always shows 0, 3, 4 or 5 community cards; while the hand
\* is unfinished the stage is preflop, flop, turn or river exactly when that
\* number is 0, 3, 4 or 5; and the community cards shown stay, in place and
\* unchanged, in every later state
C33_BoardStage ==
    /\ []BoardMatchesStage
    /\ [][IsPrefixOf(state.community_cards, state'.community_cards)]_vars

\* an unfinished hand on the river with its five cards, the first three of
\* them the flop that was shown before
C33_Witness ==
    /\ ~state.is_finished
    /\ state.stage = "river"
    /\ Len(state.community_cards) = 5
    /\ ActorId # NoneId

---------------------------------------------------------------------------
(* Everybody acts before the round ends *)

\* the ids of the players of pk who are in the hand and hold chips
CouldAct(pk) ==
    {i + 1 : i \in {j \in PlayerIndices : pk.statuses[j] /\ pk.stacks[j] > 0}}

\* the step puts new cards on the board
BoardGrows ==
    Len(pokerkit_state'.board_cards) > Len(pokerkit_state.board_cards)

\* the step ends the hand on the river with a check or a call
RiverCloses ==
    /\ Len(pokerkit_state.board_cards) = BoardSize
    /\ ~state.is_finished /\ state'.is_finished
    /\ state'.actions[Len(state'.actions)].action \in {"check", "call"}

\* C34: a betting round does not end before every player who is neither
\* folded nor all-in has acted in it: whenever a step deals the next street,
\* or ends the hand on the river with a check or call, every player who held
\* chips and cards before the step is the one acting in it or has had an
\* action accepted earlier in that round
C34_EverybodyActs ==
    [][(BoardGrows \/ RiverCloses) =>
           CouldAct(pokerkit_state) \subseteq acted_in_round \cup {ActorId}]_vars

\* the flop has just been dealt on the big blind's check, the sixth action of
\* a hand in which nobody folded
C34_Witness ==
    /\ Len(pokerkit_state.board_cards) = 3
    /\ acted_in_round = {}
    /\ Len(state.actions) = NumPlayers
    /\ state.actions[NumPlayers].player_id = 2
    /\ state.actions[NumPlayers].action = "check"
    /\ CouldAct(pokerkit_state) = PlayerIds

---------------------------------------------------------------------------
(* No negative chips *)

\* amounts no bet or raise should be made with
OddAmounts == {-1000, -40, -1, 0}

NonNegative(st) ==
    /\ \A i \in PlayerIndices :
           st.players[i].stack >= 0 /\ st.players[i].current_bet >= 0
    /\ st.pot >= 0
    /\ st.current_bet >= 0

\* C35: every player's stack and current_bet and the pot are never negative,
\* whatever integer amounts execute_action is called with: in every state
\* reached, and in the state any Bet or Raise of the player to act leaves,
\* zero and negative amounts included
C35_NonNegative ==
    /\ NonNegative(state)
    /\ ActorId # NoneId =>
           \A action \in {"bet", "raise"} :
               \A amount \in OddAmounts \cup RequestAmounts :
                   NonNegative(
                       ExecuteActionOn(Self, ActorId, action, amount).self.state)

\* somebody is all-in with an empty stack, and the player to act is refused
\* a raise to -40 and a bet of 0
C35_Witness ==
    /\ \E i \in PlayerIndices :
           state.players[i].stack = 0 /\ state.players[i].is_all_in
    /\ ActorId # NoneId
    /\ ~ExecuteActionOn(Self, ActorId, "raise", -40).ok
    /\ ~ExecuteActionOn(Self, ActorId, "bet", 0).ok

---------------------------------------------------------------------------
(* The hole cards *)

\* the hole cards state.players shows, seat by seat
HoleCardsShown(st) == [i \in PlayerIndices |-> st.players[i].hole_cards]

\* C36: the two hole cards reported for a player are the same in every state
\* of the hand: no execute_action, by that player or another, and no refresh
\* changes them
C36_HoleCardsStable ==
    [][HoleCardsShown(state') = HoleCardsShown(state)]_vars

\* C37: in every dictionary get_game_state returns, a player with is_folded
\* true has an empty hole_cards list
C37_FoldedCardsHidden ==
    \A i \in PlayerIndices :
        SnapshotNow.players[i].is_folded =>
            SnapshotNow.players[i].hole_cards = <<>>

---------------------------------------------------------------------------
(* The request layer: playing the stored hands and saving them *)

\* hands that are started, and requests made with the server unreachable
MaxHands == 2

\* the entry of players_data for seat i: initial_stack is the stack now plus
\* the amounts of the player's bet, raise and call entries on state.actions
PlayerData(game, i) ==
    LET p == game.state.players[i]
        put_in == [k \in 1..Len(game.state.actions) |->
                     IF /\ game.state.actions[k].player_id = p.id
                        /\ game.state.actions[k].action \in {"bet", "raise", "call"}
                     THEN game.state.actions[k].amount
                     ELSE 0]
    IN  [ id |-> p.id,
          initial_stack |-> p.stack + Sum(put_in),
          final_stack |-> p.stack,
          hole_cards |-> [k \in 1..Len(p.hole_cards) |-> CardStr(p.hole_cards[k])],
          is_dealer |-> p.is_dealer,
          is_small_blind |-> p.is_small_blind,
          is_big_blind |-> p.is_big_blind,
          is_folded |-> p.is_folded,
          is_all_in |-> p.is_all_in ]

\* the row save_hand_history inserts; hand_id stands for the uuid of the hand
HandHistoryRow(game, hand_id) ==
    [ id |-> hand_id,
      players_data |-> [i \in PlayerIndices |-> PlayerData(game, i)],
      community_cards |->
          [k \in 1..Len(game.state.community_cards) |->
              CardStr(game.state.community_cards[k])],
      actions |-> game.state.actions,
      pot_size |-> game.state.pot,
      winner_id |-> game.state.winner_id,
      stage |-> game.state.stage,
      dealer_position |-> game.state.dealer_position,
      small_blind |-> game.state.small_blind,
      big_blind |-> game.state.big_blind,
      created_at |-> game.state.created_at ]

\* PokerRepository.save_hand_history(game): get_connection() raises when the
\* server cannot be reached, otherwise the row is inserted and committed
SaveHandHistory(db, game, hand_id) ==
    IF db.up
    THEN [ok |-> TRUE,
          database |-> [db EXCEPT !.hand_history =
                           Append(@, HandHistoryRow(game, hand_id))]]
    ELSE [ok |-> FALSE, database |-> db]

\* what the action handler answers
ApiAnswer(game_id, status, detail) ==
    [op |-> "action", player_stacks |-> <<>>, game_id |-> game_id,
     status |-> status, detail |-> detail]

\* the handler raising an HTTPException: nothing stored changes
ApiRefused(games, db, game_id, status, detail) ==
    [active_games |-> games, database |-> db,
     last_call |-> ApiAnswer(game_id, status, detail)]

\* the handler after game.execute_action returned True: a finished hand is
\* saved, an exception of the save is printed and dropped, and the answer is
\* get_game_state() with status 200
ApiAfterExecute(games, db, game_id, game) ==
    [active_games |-> [games EXCEPT ![game_id] = GetGameStateOn(game).self],
     database |-> IF game.state.is_finished
                  THEN SaveHandHistory(db, game, game_id).database
                  ELSE db,
     last_call |-> ApiAnswer(game_id, 200, "")]

ApiExecuted(games, db, game_id, r) ==
    IF r.ok
    THEN ApiAfterExecute(games, db, game_id, r.self)
    ELSE ApiRefused(games, db, game_id, 400, "Failed to execute action")

\* POST /api/poker/game/{game_id}/action, as [active_games, database,
\* last_call] after the request
ApiExecuteActionOn(games, db, game_id, player_id, action, amount) ==
    IF game_id \notin DOMAIN games
    THEN ApiRefused(games, db, game_id, 404, "Game not found")
    ELSE IF action \notin GetValidActions(games[game_id], player_id)
    THEN ApiRefused(games, db, game_id, 400, "Invalid action")
    ELSE ApiExecuted(games, db, game_id,
                     ExecuteActionOn(games[game_id], player_id, action, amount))

ApiBecomes(out) ==
    /\ active_games' = out.active_games
    /\ database' = out.database
    /\ last_call' = out.last_call
    /\ UNCHANGED <<pokerkit_state, state, player_stacks, unique_hole_cards,
                   player_positions, detailed_log, raises_left, irregular_left,
                   acted_in_round>>

ApiExecuteAction(game_id, player_id, action, amount) ==
    ApiBecomes(ApiExecuteActionOn(active_games, database, game_id, player_id,
                                  action, amount))

\* the id of the player to act in a stored hand, None when nobody is
HandActor(game) ==
    IF PkActorIndex(game.pokerkit_state) = NoActor THEN NoneId
    ELSE PkActorIndex(game.pokerkit_state) + 1

\* the requests followed for a hand, as <<player_id, action>>: the player to
\* act folds or checks, or calls as the first action of the hand; the next
\* player folds out of turn; an unknown hand is asked for
PlayRequests(game_id) ==
    IF game_id \notin DOMAIN active_games
    THEN {<<1, "fold">>}
    ELSE {<<HandActor(active_games[game_id]), "fold">>,
          <<HandActor(active_games[game_id]), "check">>,
          <<(HandActor(active_games[game_id]) % NumPlayers) + 1, "fold">>}
         \cup (IF active_games[game_id].state.actions = <<>>
               THEN {<<HandActor(active_games[game_id]), "call">>}
               ELSE {})

ApiExecutes ==
    \E game_id \in GameIds :
        \E request \in PlayRequests(game_id) :
            ApiExecuteAction(game_id, request[1], request[2], 0)

\* a hand is started while fewer than MaxHands hands are stored or saved
StartsHand ==
    /\ Cardinality(DOMAIN active_games) < MaxHands
    /\ StartsGame
    /\ UNCHANGED database

\* the database server goes away or comes back
DbFlips ==
    /\ database' = [database EXCEPT !.up = ~@]
    /\ UNCHANGED <<pokerkit_state, state, player_stacks, unique_hole_cards,
                   player_positions, detailed_log, raises_left, irregular_left,
                   active_games, last_call, acted_in_round>>

NextHands ==
    \/ StartsHand
    \/ ApiExecutes
    \/ DbFlips

SpecHands == Init /\ [][NextHands]_vars

\* C38: hands share no mutable state: a request on one hand id leaves every
\* other stored hand as it was, and no request changes the stack mapping a
\* hand was created with (the object its player_stacks is), the request that
\* determines the hand's winner included
C38_HandIsolation ==
    [][\A game_id \in DOMAIN active_games :
           /\ last_call'.game_id # game_id =>
                  active_games'[game_id] = active_games[game_id]
           /\ active_games'[game_id].player_stacks =
                  active_games[game_id].player_stacks]_vars

\* what the handler answers tells the caller that something went wrong
ReportsFailure(answer) == answer.status >= 400 \/ answer.detail # ""

\* the request that finishes the hand, made while the database cannot be
\* reached, leaves the hand finished and answers with the failure
SurfacesFailure(game_id, r, out) ==
    (r.ok /\ r.self.state.is_finished) =>
        /\ out.active_games[game_id].state.is_finished
        /\ ReportsFailure(out.last_call)

SurfacesFailureOf(game_id, player_id, action) ==
    SurfacesFailure(
        game_id,
        ExecuteActionOn(active_games[game_id], player_id, action, 0),
        ApiExecuteActionOn(active_games, database, game_id, player_id, action, 0))

\* C39: when the action that finishes a hand is applied and the save of the
\* hand record fails, the hand stays finished in memory and the failure is
\* reported to the caller of the action request
C39_SaveFailureSurfaced ==
    ~database.up =>
        \A game_id \in DOMAIN active_games :
            \A request \in PlayRequests(game_id) :
                request[2] \in GetValidActions(active_games[game_id], request[1])
                    => SurfacesFailureOf(game_id, request[1], request[2])

\* the row's stacks for seat i against the hand it was saved for
RowStacksRight(row, game, i) ==
    /\ row.players_data[i].initial_stack = game.pokerkit_state.starting_stacks[i]
    /\ row.players_data[i].final_stack = game.state.players[i].stack

\* C40: in every saved hand record each player's initial_stack is the stack
\* supplied for that player when the hand was created and final_stack is the
\* player's stack in the finished state
C40_PersistedStacks ==
    \A k \in 1..Len(database.hand_history) :
        \A i \in PlayerIndices :
            RowStacksRight(database.hand_history[k],
                           active_games[database.hand_history[k].id], i)

====
